---- MODULE Spec2Model ----
(***************************************************************************)
(* Model of byd_lvs_monitor.py: one monitoring session (main) that opens   *)
(* the Modbus connection, discovers the module count and the BMU serial,   *)
(* reads the system summary, runs query_module for every module id, hands  *)
(* the result to the table or the JSON renderer and closes the connection. *)
(*                                                                         *)
(* The register transport (pymodbus) is the environment: every call        *)
(* either returns a response, returns an error response (isError()), or    *)
(* raises (pymodbus raises ConnectionException once the socket is lost).   *)
(*                                                                         *)
(* Units: Python floats are kept as the integers they are scaled from.     *)
(* elapsed counts poll intervals (POLL_INTERVAL = 1/POLL_INTERVAL_DEN s);  *)
(* energies are in Wh (the code multiplies by 0.001 to print kWh);         *)
(* voltages, currents and soc are in tenths (the code multiplies by 0.1).  *)
(* The rounded float field 'power' of the telemetry dict is not modelled.  *)
(*                                                                         *)
(* Optional values: None is <<>>, a present value x is <<x>>.  Strings are *)
(* sequences of character codes, so the empty string is <<>> as well,      *)
(* which is what "serial.rstrip(...) or None" produces.                    *)
(***************************************************************************)
EXTENDS Integers, Sequences, FiniteSets, TLC

\* ---- Protocol constants (byd_lvs_monitor.py lines 44-72) ----------------
CELLS_PER_MODULE == 16
POLL_TIMEOUT == 10
\* POLL_INTERVAL = 0.5 s, written as 1 / POLL_INTERVAL_DEN
POLL_INTERVAL_DEN == 2
REG_SUMMARY == 1280
REG_CONFIG == 0
REG_BMS_CMD == 1360
REG_BMS_STATUS == 1361
REG_BMS_DATA == 1368
CMD_BMS_READ == 33024
RESP_BMS_READY == 34817
BMS_DATA_CHUNKS == 4
BMS_CHUNK_SIZE == 65
\* register count of the summary read, read_summary line 117
SUMMARY_REGS == 25
\* register count of the serial read, read_bmu_serial line 94
SERIAL_REGS == 10
\* address of the module-count register, detect_modules line 108
REG_MODULE_COUNT == 16
\* module count used when auto-detection fails, main line 620
FALLBACK_MODULES == 8

\* ---- Bounds of the model -----------------------------------------------
\* largest module count of a session (--modules, or the detected count)
MaxModules == 2
\* largest --towers argument
MaxTowers == 2

None == <<>>
Some(x) == <<x>>

\* ---- Pure helpers -------------------------------------------------------
signed16(val) == IF val < 32768 THEN val ELSE val - 65536

HiByte(v) == (v \div 256) % 256
LoByte(v) == v % 256

\* t_hi / t_lo of the temperature words: byte > 127 is read as byte - 256
signed8(b) == IF b > 127 THEN b - 256 ELSE b

Printable(c) == 32 <= c /\ c < 127

\* the characters kept from one register: high byte, then low byte
RegChars(v) ==
    (IF Printable(HiByte(v)) THEN <<HiByte(v)>> ELSE <<>>)
    \o (IF Printable(LoByte(v)) THEN <<LoByte(v)>> ELSE <<>>)

RECURSIVE AsciiPairs(_)
AsciiPairs(regs) ==
    IF regs = <<>> THEN <<>>
    ELSE RegChars(Head(regs)) \o AsciiPairs(Tail(regs))

\* 'x', ' ' and NUL, the characters of rstrip('x \x00')
StripChars == {120, 32, 0}

RECURSIVE RStrip(_)
RStrip(s) ==
    IF s # <<>> /\ s[Len(s)] \in StripChars
    THEN RStrip(SubSeq(s, 1, Len(s) - 1))
    ELSE s

\* serial.rstrip('x \x00') or None
DecodeSerial(regs) == RStrip(AsciiPairs(regs))

\* variant: an `if` in place of the `while`, one trailing zero is popped
StripTrailingZeros_once(ts) ==
    IF ts # <<>> /\ ts[Len(ts)] = 0 THEN SubSeq(ts, 1, Len(ts) - 1) ELSE ts

\* query_module lines 240-241: pop while the list is not empty and ends in 0
RECURSIVE StripTrailingZeros(_)
StripTrailingZeros(ts) ==
    IF ts # <<>> /\ ts[Len(ts)] = 0
    THEN StripTrailingZeros(SubSeq(ts, 1, Len(ts) - 1))
    ELSE ts

RECURSIVE SumSeq(_)
SumSeq(s) == IF s = <<>> THEN 0 ELSE Head(s) + SumSeq(Tail(s))

\* bit number `bit` of a 16-bit mask: (bal_flags >> bit) & 1
Bit(v, bit) == (v \div (2 ^ bit)) % 2

\* r[i] of the Python list r (0-based index)
At(r, i) == r[i + 1]

\* the 8 temperatures of words 180..183 before trimming
RawTemps(r) ==
    << signed8(HiByte(At(r, 180))), signed8(LoByte(At(r, 180))),
       signed8(HiByte(At(r, 181))), signed8(LoByte(At(r, 181))),
       signed8(HiByte(At(r, 182))), signed8(LoByte(At(r, 182))),
       signed8(HiByte(At(r, 183))), signed8(LoByte(At(r, 183))) >>

\* the frame decoder, query_module lines 180-245
Decode(r, id) ==
    LET bal == [i \in 1..CELLS_PER_MODULE |-> Bit(At(r, 7), i - 1)]
    IN  [ bms_id           |-> id,
          payload_size     |-> At(r, 0),
          max_cell_v       |-> signed16(At(r, 1)),
          min_cell_v       |-> signed16(At(r, 2)),
          max_v_cell       |-> HiByte(At(r, 3)),
          max_v_module     |-> LoByte(At(r, 3)),
          max_temp         |-> signed16(At(r, 4)),
          min_temp         |-> signed16(At(r, 5)),
          max_t_cell       |-> HiByte(At(r, 6)),
          max_t_module     |-> LoByte(At(r, 6)),
          balancing_raw    |-> At(r, 7),
          balancing        |-> bal,
          balancing_active |-> SumSeq(bal),
          charge_energy    |-> At(r, 16) * 65536 + At(r, 15),
          discharge_energy |-> At(r, 18) * 65536 + At(r, 17),
          bat_voltage      |-> signed16(At(r, 21)),
          output_voltage   |-> signed16(At(r, 24)),
          soc              |-> signed16(At(r, 25)),
          soh              |-> signed16(At(r, 26)),
          current          |-> 0 - signed16(At(r, 27)),
          warnings1        |-> At(r, 28),
          warnings2        |-> At(r, 29),
          errors           |-> At(r, 48),
          serial           |-> DecodeSerial(SubSeq(r, 35, 46)),
          cell_voltages    |-> [i \in 1..CELLS_PER_MODULE |-> signed16(At(r, 48 + i))],
          cell_temps       |-> StripTrailingZeros(RawTemps(r)) ]

\* ---- The register transport (environment) -------------------------------
\* a response object of the client: isError() and, when it is not an error,
\* the registers it carries
ErrResponse == [isError |-> TRUE, registers |-> <<>>]
OkResponse(regs) == [isError |-> FALSE, registers |-> regs]

\* a request handed to the client
ReadReq(addr, n) == [fn |-> "read", address |-> addr, count |-> n, values |-> <<>>]
WriteReq(addr, vals) == [fn |-> "write", address |-> addr, count |-> Len(vals), values |-> vals]
NoReq == [fn |-> "none", address |-> 0, count |-> 0, values |-> <<>>]

\* word p (0-based) of the telemetry frame the controller streams out of its FIFO
FrameWord(p) == p + 1

\* the words a data read of chunk c answers with when it carries n registers
ChunkFrame(c, n) == [j \in 1..n |-> FrameWord(c * BMS_CHUNK_SIZE + j - 1)]

\* register counts a successful data read may carry: the requested 65, or a
\* response that is one register short
ChunkLens == {BMS_CHUNK_SIZE - 1, BMS_CHUNK_SIZE}

DataResponses(c) == {ErrResponse} \cup {OkResponse(ChunkFrame(c, n)) : n \in ChunkLens}

\* values the status register may show: ready, idle, and a near miss
StatusValues == {RESP_BMS_READY, 0, RESP_BMS_READY - 1}

StatusResponses == {ErrResponse} \cup {OkResponse(<<v>>) : v \in StatusValues}

WriteResponses == {ErrResponse, OkResponse(<<>>)}

\* the 10 identity registers: "AB", "C" NUL, "x" " ", then NULs
SerialFrame == <<16706, 17152, 30752, 0, 0, 0, 0, 0, 0, 0>>

SerialResponses == {ErrResponse, OkResponse(SerialFrame)}

SummaryFrame == [i \in 1..SUMMARY_REGS |-> 100 + i]

SummaryResponses == {ErrResponse, OkResponse(SummaryFrame)}

\* values of the module-count register that leave the session within
\* MaxModules; the failure and zero answers lead to FALLBACK_MODULES
CountResponses ==
    {OkResponse(<<c>>) : c \in 1..MaxModules}
    \cup {OkResponse(<<16 + c>>) : c \in 1..MaxModules}
    \cup (IF FALLBACK_MODULES <= MaxModules
          THEN {ErrResponse, OkResponse(<<0>>), OkResponse(<<16>>)}
          ELSE {})

\* ---- Decoders of the single-shot reads ----------------------------------
\* detect_modules lines 106-112: None, or the low nibble when it is > 0
detect_modules(res) ==
    IF res.isError THEN None
    ELSE LET module_count == res.registers[1] % 16
         IN  IF module_count > 0 THEN Some(module_count) ELSE None

\* read_bmu_serial lines 92-103
read_bmu_serial(res) == IF res.isError THEN None ELSE DecodeSerial(res.registers)

\* read_summary lines 115-137 (main lines 630-632 add towers and bmu_serial)
read_summary(res) ==
    IF res.isError THEN None
    ELSE LET q == res.registers
         IN  Some([ soc              |-> At(q, 0),
                    max_cell_v       |-> At(q, 1),
                    min_cell_v       |-> At(q, 2),
                    soh              |-> At(q, 3),
                    current          |-> 0 - signed16(At(q, 4)),
                    pack_voltage     |-> At(q, 5),
                    max_temp         |-> At(q, 6),
                    min_temp         |-> At(q, 7),
                    pack_voltage_2   |-> IF Len(q) > 16 THEN At(q, 16) ELSE 0,
                    charge_energy    |-> IF Len(q) > 18 THEN At(q, 18) * 65536 + At(q, 17) ELSE 0,
                    discharge_energy |-> IF Len(q) > 20 THEN At(q, 20) * 65536 + At(q, 19) ELSE 0 ])

\* ---- query_module's conditions -------------------------------------------
\* variant: the result of the write is not looked at
WriteFailed_ignored(w) == FALSE

\* line 153: if wr.isError()
WriteFailed(w) == w.isError

\* line 158: while elapsed < POLL_TIMEOUT, elapsed counted in poll intervals
PollLimit == POLL_TIMEOUT * POLL_INTERVAL_DEN
\* variant: one pass too many (<= instead of <)
PollAgain_inclusive(e) == e <= PollLimit

PollAgain(e) == e < PollLimit

\* variant: any successful status read counts as ready
Ready_anyValue(res) == ~res.isError

\* line 162: not result.isError() and result.registers[0] == RESP_BMS_READY
Ready(res) == ~res.isError /\ res.registers[1] = RESP_BMS_READY

\* lines 172-175: what one chunk read appends to r
ZeroChunk == [j \in 1..BMS_CHUNK_SIZE |-> 0]
\* variant: a failed chunk appends nothing
ChunkWords_noFill(res) == IF res.isError THEN <<>> ELSE res.registers

ChunkWords(res) == IF res.isError THEN ZeroChunk ELSE res.registers

\* line 169: for chunk in range(BMS_DATA_CHUNKS)
MoreChunks(c) == c < BMS_DATA_CHUNKS

\* line 177: if len(r) < BMS_DATA_CHUNKS * BMS_CHUNK_SIZE
FrameLen == BMS_DATA_CHUNKS * BMS_CHUNK_SIZE
\* variant: the guard is off by one
ShortFrame_offByOne(buf) == Len(buf) < FrameLen - 1

ShortFrame(buf) == Len(buf) < FrameLen

\* lines 177-245: the value query_module returns once the reads are done
QueryResult(buf, id) == IF ShortFrame(buf) THEN None ELSE Some(Decode(buf, id))

\* ---- Renderers ------------------------------------------------------------
\* print_cell_table line 337, print_energy_overview line 478, output_json line 537
ModsPerTower(n, t) == IF t > 1 THEN n \div t ELSE n

\* the values of a Python list
SeqSet(s) == {s[k] : k \in DOMAIN s}

\* min() and max() of a non-empty collection
MinOf(S) == CHOOSE x \in S : \A y \in S : x <= y
MaxOf(S) == CHOOSE x \in S : \A y \in S : x >= y

\* print_cell_table lines 295-297: the extremes over the cells of all modules
AllVolts(ad) == UNION {SeqSet(ad[id].cell_voltages) : id \in DOMAIN ad}
g_v_min(ad) == IF AllVolts(ad) = {} THEN 0 ELSE MinOf(AllVolts(ad))
g_v_max(ad) == IF AllVolts(ad) = {} THEN 0 ELSE MaxOf(AllVolts(ad))

\* lines 299 and 331: the temperatures that count, those above 0
ValidTemps(ct) == {t \in SeqSet(ct) : t > 0}

\* lines 299-301
AllTemps(ad) == UNION {ValidTemps(ad[id].cell_temps) : id \in DOMAIN ad}
g_t_min(ad) == IF AllTemps(ad) = {} THEN 0 ELSE MinOf(AllTemps(ad))
g_t_max(ad) == IF AllTemps(ad) = {} THEN 0 ELSE MaxOf(AllTemps(ad))

\* lines 366-375: the colour code of one voltage cell, "" when it is printed plain
VoltColor(v, cv, ad) ==
    LET cv_min == MinOf(SeqSet(cv))
        cv_max == MaxOf(SeqSet(cv))
        cv_spread == cv_max - cv_min
    IN  IF v = g_v_max(ad) THEN "1;32"
        ELSE IF v = g_v_min(ad) THEN "1;31"
        ELSE IF v = cv_max /\ cv_spread > 2 THEN "92"
        ELSE IF v = cv_min /\ cv_spread > 2 THEN "91"
        ELSE ""

\* lines 331-333 and 387-396: the colour code of one temperature cell
TempColor(t, ct, ad) ==
    LET ct_valid == ValidTemps(ct)
        ct_min == IF ct_valid = {} THEN 0 ELSE MinOf(ct_valid)
        ct_max == IF ct_valid = {} THEN 0 ELSE MaxOf(ct_valid)
    IN  IF t = g_t_max(ad) THEN "1;31"
        ELSE IF t = g_t_min(ad) THEN "1;34"
        ELSE IF t = ct_max /\ ct_max > ct_min THEN "91"
        ELSE IF t = ct_min /\ ct_max > ct_min THEN "94"
        ELSE ""

\* lines 362-378: the colour codes of the voltage row of module id
VoltRow(ad, id) ==
    LET cv == ad[id].cell_voltages
    IN  [i \in DOMAIN cv |-> VoltColor(cv[i], cv, ad)]

\* lines 380-400: the colour codes of the temperature row, "." for a column
\* without a temperature above 0
TempRow(ad, id) ==
    LET ct == ad[id].cell_temps
    IN  [i \in 1..CELLS_PER_MODULE |->
            IF i <= Len(ct) /\ ct[i] > 0 THEN TempColor(ct[i], ct, ad) ELSE "."]

\* print_cell_table lines 319-424, from module id on: one line per module id;
\* the tower split of line 338 divides by mods_per_tower and raises
\* ZeroDivisionError when it is 0, which ends the renderer
RECURSIVE CellTable(_, _, _, _)
CellTable(ad, n, t, id) ==
    IF id > n THEN [lines |-> <<>>, raised |-> FALSE]
    ELSE IF id \notin DOMAIN ad
         THEN LET rest == CellTable(ad, n, t, id + 1)
              IN  [lines |-> <<<<"no_response", id>>>> \o rest.lines, raised |-> rest.raised]
         ELSE IF ModsPerTower(n, t) = 0
              THEN [lines |-> <<>>, raised |-> TRUE]
              ELSE LET rest == CellTable(ad, n, t, id + 1)
                   IN  [lines |-> <<<<"cells", id, VoltRow(ad, id), TempRow(ad, id)>>>>
                                       \o rest.lines,
                        raised |-> rest.raised]

\* print_soc_overview lines 449-471
SocOverview(ad, n) ==
    [id \in 1..n |-> IF id \in DOMAIN ad THEN <<"soc", id>> ELSE <<"no_data_soc", id>>]

\* WARRANTY_MWH lines 54-61, in hundredths of a MWh
WARRANTY_MWH ==
    (1 :> 1188) @@ (2 :> 2376) @@ (3 :> 3564) @@ (4 :> 4753) @@ (5 :> 5941) @@ (6 :> 7129)

\* WARRANTY_MWH.get(mods_per_tower, 0) * 1000, in kWh
WarrantyPerTowerKwh(mpt) == IF mpt \in DOMAIN WARRANTY_MWH THEN WARRANTY_MWH[mpt] * 10 ELSE 0

\* num / den to the nearest whole number, the one decimal of f"{x:.1f}" and
\* round(x, 1) when num / den is a quantity in tenths
Nearest(num, den) == (2 * num + den) \div (2 * den)

\* print_energy_overview lines 478-480 and 505-506: warr_pct of a module whose
\* discharge energy is dch Wh, in tenths of a percent
TableWarrantyPct(dch, n, t) ==
    LET sys_warr_kwh == WarrantyPerTowerKwh(ModsPerTower(n, t)) * t
    IN  IF sys_warr_kwh > 0 THEN Nearest(dch * n, sys_warr_kwh) ELSE 0

\* output_json lines 536-538 and 550-551, num_modules being len(all_data):
\* warr_pct in tenths of a percent
JsonWarrantyPct(dch, ad, t) ==
    LET mods_per_tower == ModsPerTower(Cardinality(DOMAIN ad), t)
        warranty_per_tower_kwh == WarrantyPerTowerKwh(mods_per_tower)
    IN  IF warranty_per_tower_kwh > 0 /\ mods_per_tower > 0
        THEN Nearest(dch * mods_per_tower, warranty_per_tower_kwh)
        ELSE 0

\* print_energy_overview lines 492-515: a row per module id, with its warr_pct
EnergyOverview(ad, n, t) ==
    [id \in 1..n |->
        IF id \in DOMAIN ad
        THEN <<"energy", id, TableWarrantyPct(ad[id].discharge_energy, n, t)>>
        ELSE <<"no_data_energy", id>>]

\* main lines 653-663: the table-mode report
TableReport(ad, n, t) ==
    LET ct == CellTable(ad, n, t, 1)
    IN  IF ct.raised THEN ct
        ELSE [lines |-> ct.lines \o SocOverview(ad, n) \o EnergyOverview(ad, n, t)
                        \o (IF DOMAIN ad # {} THEN <<<<"total", 0>>>> ELSE <<>>),
              raised |-> FALSE]

\* output_json lines 540-576: the document printed in --json mode
output_json(sm, ad, t) ==
    [summary |-> sm,
     modules |-> [id \in DOMAIN ad |->
                    [warranty_used_pct |-> JsonWarrantyPct(ad[id].discharge_energy, ad, t)]
                    @@ ad[id]]]

\* ---- State ------------------------------------------------------------------
VARIABLES
    pc,            \* position of main / query_module
    raised,        \* an exception is propagating out of the try block
    connects,      \* successful client.connect() calls
    closes,        \* client.close() calls
    json,          \* args.json
    towers,        \* args.towers
    num_modules,   \* main's num_modules (args.modules until detection)
    bmu_serial,    \* main's bmu_serial
    summary,       \* main's summary
    all_data,      \* main's all_data: module id -> telemetry dict
    bms_id,        \* main's loop variable
    data,          \* main's data: what query_module returned
    wr,            \* query_module's wr
    elapsed,       \* query_module's elapsed, in poll intervals (not read once
                   \* the poll loop is left: kept until the first chunk read)
    result,        \* query_module's result
    r,             \* query_module's r
    chunk,         \* query_module's chunk
    stdout,        \* the lines printed so far
    report,        \* the JSON document printed by output_json
    req,           \* the last request issued to the transport
    ioAfterClose,  \* history: a request was issued after close()
    writes,        \* history: command writes of the current query
    statusReads,   \* history: status reads of the current query's poll loop
                   \* (kept until the first chunk read)
    readySeen,     \* history: a status read of the current query answered ready
    dataReads,     \* history: data reads of the current query
    resp,          \* history: the responses of the current query's data reads
    queryLog,      \* history: the module ids query_module was called with
    outcome,       \* history: module id -> how its query ended
    summaryReads   \* history: reads of the summary block

args == <<json, towers>>
conn == <<connects, closes>>
sess == <<num_modules, bmu_serial, summary, all_data, bms_id, data>>
qloc == <<wr, elapsed, result, r, chunk>>
outs == <<stdout, report>>
qhist == <<writes, statusReads, readySeen, dataReads, resp>>
shist == <<queryLog, outcome, summaryReads>>
vars == <<pc, raised, args, conn, sess, qloc, outs, req, ioAfterClose, qhist, shist>>

Init ==
    /\ pc = "connect"
    /\ raised = FALSE
    /\ connects = 0
    /\ closes = 0
    /\ json \in BOOLEAN
    /\ towers \in 1..MaxTowers
    /\ num_modules \in 0..MaxModules
    /\ bmu_serial = None
    /\ summary = None
    /\ all_data = <<>>
    /\ bms_id = 0
    /\ data = None
    /\ wr = None
    /\ elapsed = 0
    /\ result = None
    /\ r = <<>>
    /\ chunk = 0
    /\ stdout = <<>>
    /\ report = None
    /\ req = NoReq
    /\ ioAfterClose = FALSE
    /\ writes = 0
    /\ statusReads = 0
    /\ readySeen = FALSE
    /\ dataReads = 0
    /\ resp = <<>>
    /\ queryLog = <<>>
    /\ outcome = <<>>
    /\ summaryReads = 0

\* print(...) when not args.json
Say(items) == stdout' = IF json THEN stdout ELSE stdout \o items

\* a request goes out on the connection
Issue(q) ==
    /\ req' = q
    /\ ioAfterClose' = (ioAfterClose \/ closes > 0)

\* query_module's locals and the per-query history, as at the start of a call
FreshQuery ==
    /\ wr' = None
    /\ elapsed' = 0
    /\ result' = None
    /\ r' = <<>>
    /\ chunk' = 0
    /\ writes' = 0
    /\ statusReads' = 0
    /\ readySeen' = FALSE
    /\ dataReads' = 0
    /\ resp' = <<>>

\* ---- main, up to the query loop ----------------------------------------------
\* connect lines 81-89: a failed connect exits the process before the try block
Connect ==
    /\ pc = "connect"
    /\ \E ok \in BOOLEAN :
         /\ connects' = IF ok THEN connects + 1 ELSE connects
         /\ pc' = IF ok THEN "start" ELSE "exit"
    /\ UNCHANGED <<raised, args, closes, sess, qloc, outs, req, ioAfterClose, qhist, shist>>

\* main lines 612-620: auto-detect the module count when --modules is not given
Detect ==
    /\ pc = "start"
    /\ IF num_modules <= 0
       THEN \E res \in CountResponses :
              /\ Issue(ReadReq(REG_MODULE_COUNT, 1))
              /\ num_modules' = IF detect_modules(res) # None
                                THEN detect_modules(res)[1]
                                ELSE FALLBACK_MODULES
       ELSE UNCHANGED <<num_modules, req, ioAfterClose>>
    /\ pc' = "serial"
    /\ UNCHANGED <<raised, args, conn, bmu_serial, summary, all_data, bms_id, data,
                   qloc, outs, qhist, shist>>

\* main lines 623-626
ReadSerial ==
    /\ pc = "serial"
    /\ \E res \in SerialResponses :
         /\ Issue(ReadReq(REG_CONFIG, SERIAL_REGS))
         /\ bmu_serial' = read_bmu_serial(res)
    /\ Say(<<<<"header", 0>>>>)
    /\ pc' = "summary"
    /\ UNCHANGED <<raised, args, conn, num_modules, summary, all_data, bms_id, data,
                   qloc, report, qhist, shist>>

\* main lines 630-632: a summary that was read gets the session's fields
WithSession(sm) ==
    IF sm = None THEN None
    ELSE Some([s \in {"session"} \cup DOMAIN sm[1] |->
                 IF s = "session" THEN <<towers, bmu_serial>> ELSE sm[1][s]])

\* variant: a summary that cannot be read ends the session
ReadSummary_fatal ==
    /\ pc = "summary"
    /\ \E res \in SummaryResponses :
         /\ Issue(ReadReq(REG_SUMMARY, SUMMARY_REGS))
         /\ summary' = WithSession(read_summary(res))
    /\ summaryReads' = summaryReads + 1
    /\ Say(IF summary' = None THEN <<<<"summary_unavailable", 0>>>> ELSE <<<<"summary", 0>>>>)
    /\ all_data' = <<>>
    /\ bms_id' = 1
    /\ pc' = IF summary' = None THEN "finally" ELSE "loop"
    /\ UNCHANGED <<raised, args, conn, num_modules, bmu_serial, data, qloc, report,
                   qhist, queryLog, outcome>>

\* main lines 629-637: the summary read, then the empty collection
ReadSummary ==
    /\ pc = "summary"
    /\ \E res \in SummaryResponses :
         /\ Issue(ReadReq(REG_SUMMARY, SUMMARY_REGS))
         /\ summary' = WithSession(read_summary(res))
    /\ summaryReads' = summaryReads + 1
    /\ Say(IF summary' = None THEN <<<<"summary_unavailable", 0>>>> ELSE <<<<"summary", 0>>>>)
    /\ all_data' = <<>>
    /\ bms_id' = 1
    /\ pc' = "loop"
    /\ UNCHANGED <<raised, args, conn, num_modules, bmu_serial, data, qloc, report,
                   qhist, queryLog, outcome>>

\* main line 638: for bms_id in range(1, num_modules + 1)
InRange(id, n) == id <= n

\* main lines 638-641: the loop head; calls query_module(client, bms_id)
ForNext ==
    /\ pc = "loop"
    /\ IF InRange(bms_id, num_modules)
       THEN /\ Say(<<<<"reading", bms_id>>>>)
            /\ queryLog' = Append(queryLog, bms_id)
            /\ pc' = "q_write"
       ELSE /\ pc' = "output"
            /\ UNCHANGED <<stdout, queryLog>>
    /\ UNCHANGED <<raised, args, conn, sess, qloc, report, req, ioAfterClose, qhist,
                   outcome, summaryReads>>

\* ---- query_module ---------------------------------------------------------------
Ended(how) == outcome' = (bms_id :> how) @@ outcome

\* lines 152-154: the command write
QWrite ==
    /\ pc = "q_write"
    /\ \E w \in WriteResponses :
         /\ Issue(WriteReq(REG_BMS_CMD, <<bms_id, CMD_BMS_READ>>))
         /\ wr' = Some(w)
         /\ writes' = writes + 1
         /\ IF WriteFailed(w)
            THEN /\ data' = None
                 /\ Ended("WriteFailed")
                 /\ pc' = "store"
            ELSE /\ pc' = "q_poll"
                 /\ UNCHANGED <<data, outcome>>
    /\ elapsed' = 0
    /\ UNCHANGED <<raised, args, conn, num_modules, bmu_serial, summary, all_data, bms_id,
                   result, r, chunk, outs, statusReads, readySeen, dataReads, resp,
                   queryLog, summaryReads>>

\* lines 158-163: one pass of the poll loop
QPoll ==
    /\ pc = "q_poll"
    /\ PollAgain(elapsed)
    /\ elapsed' = elapsed + 1
    /\ \E res \in StatusResponses :
         /\ Issue(ReadReq(REG_BMS_STATUS, 1))
         /\ result' = Some(res)
         /\ pc' = IF Ready(res) THEN "q_fetch" ELSE "q_poll"
         /\ readySeen' = (res = OkResponse(<<RESP_BMS_READY>>))
    /\ statusReads' = statusReads + 1
    /\ UNCHANGED <<raised, args, conn, sess, wr, r, chunk, outs, writes, dataReads, resp,
                   shist>>

\* lines 158, 164-165: the loop condition fails, the else branch returns None
QTimeout ==
    /\ pc = "q_poll"
    /\ ~PollAgain(elapsed)
    /\ data' = None
    /\ Ended("Timeout")
    /\ pc' = "store"
    /\ UNCHANGED <<raised, args, conn, num_modules, bmu_serial, summary, all_data, bms_id,
                   qloc, outs, req, ioAfterClose, qhist, queryLog, summaryReads>>

\* lines 169-175: one chunk read
QFetch ==
    /\ pc = "q_fetch"
    /\ MoreChunks(chunk)
    /\ \E res \in DataResponses(chunk) :
         /\ Issue(ReadReq(REG_BMS_DATA, BMS_CHUNK_SIZE))
         /\ result' = Some(res)
         /\ r' = r \o ChunkWords(res)
         /\ resp' = Append(resp, res)
    /\ chunk' = chunk + 1
    /\ dataReads' = dataReads + 1
    /\ elapsed' = 0
    /\ statusReads' = 0
    /\ pc' = "q_fetch"
    /\ UNCHANGED <<raised, args, conn, sess, wr, outs, writes, readySeen, shist>>

\* how a query that got through its reads ended
Kind(res, rs) ==
    IF res = None THEN "ShortFrame"
    ELSE IF \E k \in 1..Len(rs) : rs[k].isError THEN "Degraded" ELSE "Telemetry"

\* lines 177-245: the length guard, the decoder, the return
QReturn ==
    /\ pc = "q_fetch"
    /\ ~MoreChunks(chunk)
    /\ data' = QueryResult(r, bms_id)
    /\ Ended(Kind(data', resp))
    /\ pc' = "store"
    /\ UNCHANGED <<raised, args, conn, num_modules, bmu_serial, summary, all_data, bms_id,
                   qloc, outs, req, ioAfterClose, qhist, queryLog, summaryReads>>

\* variant: a record whose first word is 0 is taken for a failure
Truthy_payload(d) == d # None /\ d[1].payload_size # 0

\* main line 642: if data
Truthy(d) == d # None

\* variant: the first failed module ends the loop
Store_breakOnFailure ==
    /\ pc = "store"
    /\ IF Truthy(data)
       THEN /\ all_data' = (bms_id :> data[1]) @@ all_data
            /\ Say(<<<<"ok", bms_id>>>>)
            /\ bms_id' = bms_id + 1
       ELSE /\ Say(<<<<"failed", bms_id>>>>)
            /\ bms_id' = num_modules + 1
            /\ UNCHANGED all_data
    /\ pc' = "loop"
    /\ FreshQuery
    /\ UNCHANGED <<raised, args, conn, num_modules, bmu_serial, summary, data, report,
                   req, ioAfterClose, shist>>

\* main lines 642-648: keep the telemetry or report the failure, then next id
Store ==
    /\ pc = "store"
    /\ IF Truthy(data)
       THEN /\ all_data' = (bms_id :> data[1]) @@ all_data
            /\ Say(<<<<"ok", bms_id>>>>)
       ELSE /\ Say(<<<<"failed", bms_id>>>>)
            /\ UNCHANGED all_data
    /\ bms_id' = bms_id + 1
    /\ pc' = "loop"
    /\ FreshQuery
    /\ UNCHANGED <<raised, args, conn, num_modules, bmu_serial, summary, data, report,
                   req, ioAfterClose, shist>>

\* ---- main, after the query loop ---------------------------------------------------
\* main lines 650-651
OutputJson ==
    /\ pc = "output"
    /\ json
    /\ report' = Some(output_json(summary, all_data, towers))
    /\ pc' = "finally"
    /\ UNCHANGED <<raised, args, conn, sess, qloc, stdout, req, ioAfterClose, qhist, shist>>

\* main lines 652-663; the renderer may raise, which skips the rest
OutputTable ==
    /\ pc = "output"
    /\ ~json
    /\ LET tr == TableReport(all_data, num_modules, towers)
       IN  /\ stdout' = stdout \o tr.lines
           /\ raised' = tr.raised
    /\ pc' = "finally"
    /\ UNCHANGED <<args, conn, sess, qloc, report, req, ioAfterClose, qhist, shist>>

\* the request main or query_module is about to issue at pc
PendingReq ==
    CASE pc = "start"   -> ReadReq(REG_MODULE_COUNT, 1)
      [] pc = "serial"  -> ReadReq(REG_CONFIG, SERIAL_REGS)
      [] pc = "summary" -> ReadReq(REG_SUMMARY, SUMMARY_REGS)
      [] pc = "q_write" -> WriteReq(REG_BMS_CMD, <<bms_id, CMD_BMS_READ>>)
      [] pc = "q_poll"  -> ReadReq(REG_BMS_STATUS, 1)
      [] pc = "q_fetch" -> ReadReq(REG_BMS_DATA, BMS_CHUNK_SIZE)
      [] OTHER          -> NoReq

AboutToCall ==
    \/ pc = "start" /\ num_modules <= 0
    \/ pc \in {"serial", "summary", "q_write"}
    \/ pc = "q_poll" /\ PollAgain(elapsed)
    \/ pc = "q_fetch" /\ MoreChunks(chunk)

\* a transport call raises instead of returning: control leaves the try block
\* (main line 610) for the finally clause
TransportRaises ==
    /\ AboutToCall
    /\ Issue(PendingReq)
    /\ raised' = TRUE
    /\ pc' = "finally"
    /\ outcome' = IF pc \in {"q_write", "q_poll", "q_fetch"}
                  THEN (bms_id :> "Raised") @@ outcome
                  ELSE outcome
    /\ summaryReads' = IF pc = "summary" THEN summaryReads + 1 ELSE summaryReads
    /\ FreshQuery
    /\ UNCHANGED <<args, conn, sess, outs, queryLog>>

\* variant: close() sits after the try block instead of in a finally clause
Finally_onlyOnSuccess ==
    /\ pc = "finally"
    /\ closes' = IF raised THEN closes ELSE closes + 1
    /\ Say(<<<<"closed", 0>>>>)
    /\ pc' = "done"
    /\ UNCHANGED <<raised, args, connects, sess, qloc, report, req, ioAfterClose,
                   qhist, shist>>

\* main lines 665-668: the finally clause
Finally ==
    /\ pc = "finally"
    /\ closes' = closes + 1
    /\ Say(<<<<"closed", 0>>>>)
    /\ pc' = "done"
    /\ UNCHANGED <<raised, args, connects, sess, qloc, report, req, ioAfterClose,
                   qhist, shist>>

Next ==
    \/ Connect
    \/ Detect
    \/ ReadSerial
    \/ ReadSummary
    \/ ForNext
    \/ QWrite
    \/ QPoll
    \/ QTimeout
    \/ QFetch
    \/ QReturn
    \/ Store
    \/ OutputJson
    \/ OutputTable
    \/ TransportRaises
    \/ Finally

Spec == Init /\ [][Next]_vars

\* ---- Properties -----------------------------------------------------------------
InQuery == pc \in {"q_write", "q_poll", "q_fetch", "store"}

\* the module ids whose query has ended the way `kinds` says
EndedAs(kinds) == {i \in DOMAIN outcome : outcome[i] \in kinds}

Items(seq) == {seq[k] : k \in 1..Len(seq)}

\* C1: within one query_module call the transport sees one command write
\* [bms_id, 0x8100] to 0x0550 first, status reads of 0x0551 only after that write
\* succeeded, and data reads of 0x0558 only after a status read answered 0x8801.
C1_WritePollFetchOrder ==
    /\ writes <= 1
    /\ (pc = "q_write" => writes = 0 /\ statusReads = 0 /\ dataReads = 0 /\ ~readySeen)
    /\ (pc \in {"q_poll", "q_fetch", "store"} => writes = 1 /\ wr # None)
    /\ (pc = "q_poll" /\ statusReads = 0 =>
            req = WriteReq(1360, <<bms_id, 33024>>) /\ ~wr[1].isError)
    /\ (statusReads > 0 =>
            /\ InQuery /\ writes = 1 /\ ~wr[1].isError
            /\ dataReads = 0
            /\ req = ReadReq(1361, 1))
    /\ (readySeen => result # None /\ (dataReads = 0 => result[1] = OkResponse(<<34817>>)))
    /\ (dataReads > 0 =>
            /\ InQuery /\ writes = 1 /\ ~wr[1].isError
            /\ readySeen
            /\ req = ReadReq(1368, 65))

\* a query that wrote, polled and read all its chunks
C1_Witness ==
    /\ pc = "store"
    /\ writes = 1
    /\ readySeen
    /\ dataReads = 4

\* C2: a command write that reports an error ends the query at once: no telemetry,
\* no status read, no data read; the session goes on to the next module id with
\* the collection untouched.
C2_WriteErrorState ==
    (wr # None /\ wr[1].isError) =>
        /\ pc = "store"
        /\ data = None
        /\ statusReads = 0 /\ dataReads = 0 /\ ~readySeen
        /\ r = <<>>
        /\ ~raised
        /\ bms_id \in DOMAIN outcome /\ outcome[bms_id] = "WriteFailed"

C2_WriteErrorStep ==
    (wr # None /\ wr[1].isError) =>
        /\ all_data' = all_data
        /\ pc' = "loop"
        /\ bms_id' = bms_id + 1
        /\ raised' = raised

C2_WriteFailureIsImmediate == []C2_WriteErrorState /\ [][C2_WriteErrorStep]_vars

\* module 1's write failed and module 2 still delivered telemetry
C2_Witness ==
    /\ 1 \in DOMAIN outcome
    /\ outcome[1] = "WriteFailed"
    /\ 1 \notin DOMAIN all_data
    /\ 2 \in DOMAIN all_data

\* C3: the poll loop issues at most 20 status reads; the query goes on to the
\* fetch iff one of them answers 0x8801 without error (the 20th included); any
\* other answer keeps it polling; 20 answers that are not ready end it with a
\* timeout, without a data read and without telemetry.
C3_PollState ==
    /\ statusReads <= 20
    /\ elapsed <= 20
    /\ (pc = "q_fetch" => readySeen)
    /\ (pc = "q_poll" => ~readySeen /\ statusReads = elapsed)
    /\ (readySeen => pc \in {"q_fetch", "store"})
    /\ (readySeen /\ pc = "store" => outcome[bms_id] \in {"ShortFrame", "Degraded", "Telemetry"})
    /\ (statusReads > 0 /\ ~readySeen =>
            \/ pc = "q_poll"
            \/ pc = "store" /\ statusReads = 20 /\ outcome[bms_id] = "Timeout")
    /\ (pc = "store" /\ outcome[bms_id] = "Timeout" =>
            /\ statusReads = 20
            /\ ~readySeen
            /\ dataReads = 0
            /\ r = <<>>
            /\ data = None)

C3_PollStep ==
    /\ (pc = "q_poll" /\ statusReads < 20 /\ pc' = "q_poll" => statusReads' = statusReads + 1)
    /\ (pc = "q_poll" /\ statusReads < 20 /\ pc' = "store" => FALSE)
    /\ (pc = "q_poll" /\ pc' \in {"q_poll", "q_fetch"} =>
            (pc' = "q_fetch" <=> result' = Some(OkResponse(<<34817>>))))
    /\ (pc = "q_poll" /\ statusReads = 20 => pc' = "store" /\ data' = None)

C3_BoundedExactPoll == []C3_PollState /\ [][C3_PollStep]_vars

\* module 1 timed out, module 2 answered ready on its 20th status read
C3_Witness ==
    /\ 1 \in DOMAIN outcome
    /\ outcome[1] = "Timeout"
    /\ bms_id = 2
    /\ pc = "q_fetch"
    /\ statusReads = 20
    /\ readySeen

\* what chunk response x contributes to the frame
C4_Fill(x) == IF x.isError THEN [j \in 1..65 |-> 0] ELSE x.registers

\* chunk k (0-based) of the frame sits at positions 65k .. 65k+64
C4_InPlace(k) ==
    /\ Len(r) >= 65 * k + 65
    /\ SubSeq(r, 65 * k + 1, 65 * k + 65) = C4_Fill(resp[k + 1])

C4_FullReads == \A k \in 1..Len(resp) : resp[k].isError \/ Len(resp[k].registers) = 65

\* C4 as stated: once ready was seen the query issues 4 data reads whatever
\* fails, a failed chunk k is 65 zeros at 65k..65k+64, every chunk that was read
\* sits at its own positions, and telemetry is returned.
C4_Original ==
    (pc = "store" /\ readySeen) =>
        /\ dataReads = 4
        /\ Len(resp) = 4
        /\ \A k \in 0..3 : C4_InPlace(k)
        /\ data # None

\* C4 (amended): once ready was seen, a query that returns has issued exactly 4
\* data reads of 65 words whatever failed; the frame is the chunks in read order,
\* a failed chunk being 65 zeros; when every chunk that was read carried exactly
\* 65 words, chunk k sits at 65k..65k+64 and telemetry is returned, also when
\* all 4 chunks failed; telemetry is returned iff the frame has 260 words or more.
C4_ZeroFillKeepsGoing ==
    (pc = "store" /\ readySeen) =>
        /\ dataReads = 4
        /\ Len(resp) = 4
        /\ req = ReadReq(1368, 65)
        /\ r = C4_Fill(resp[1]) \o C4_Fill(resp[2]) \o C4_Fill(resp[3]) \o C4_Fill(resp[4])
        /\ (C4_FullReads => Len(r) = 260 /\ data # None /\ \A k \in 0..3 : C4_InPlace(k))
        /\ (data # None <=> Len(r) >= 260)

\* all four chunk reads failed and the query still returned a record
C4_Witness ==
    /\ pc = "store"
    /\ readySeen
    /\ dataReads = 4
    /\ \A k \in 1..Len(resp) : resp[k].isError
    /\ data # None
    /\ data[1].cell_voltages = [i \in 1..16 |-> 0]

\* C5: the decoder never sees a frame shorter than 260 words: a query whose
\* assembled frame is shorter returns no telemetry, and a query that returns
\* telemetry had a frame of at least 260 words.
C5_NoShortFrameDecoded ==
    /\ (pc = "store" => (Len(r) < 260 => data = None))
    /\ (pc = "store" /\ data # None =>
            /\ Len(r) >= 260
            /\ data[1].bms_id = bms_id
            /\ Len(data[1].cell_voltages) = 16)
    /\ \A i \in EndedAs({"ShortFrame"}) : i \notin DOMAIN all_data

\* a chunk read succeeded with fewer than 65 words and the query returned None
C5_Witness ==
    /\ pc = "store"
    /\ dataReads = 4
    /\ \E k \in 1..Len(resp) : ~resp[k].isError /\ Len(resp[k].registers) < 65
    /\ Len(r) = 259
    /\ data = None

Failures == {"WriteFailed", "Timeout", "ShortFrame"}
Deliveries == {"Degraded", "Telemetry"}

\* C6: every module id 1..N is queried exactly once, in ascending order; a write
\* failure, timeout or short frame of module i neither ends the session nor keeps
\* modules i+1..N from being queried, and no module is queried twice.
C6_EveryModuleOnceInOrder ==
    /\ queryLog = [k \in 1..Len(queryLog) |-> k]
    /\ Len(queryLog) <= num_modules
    /\ (pc = "output" => Len(queryLog) = num_modules /\ DOMAIN outcome = 1..num_modules)
    /\ \A i \in EndedAs(Failures) :
          /\ (pc = "store" /\ bms_id = i => ~raised)
          /\ i < num_modules =>
                \/ pc = "store" /\ bms_id = i
                \/ pc = "loop" /\ bms_id = i + 1
                \/ i + 1 \in Items(queryLog)

\* the loop is over: module 1 had a short frame, module 2 was still queried
C6_Witness ==
    /\ pc = "output"
    /\ num_modules = 2
    /\ outcome[1] = "ShortFrame"
    /\ outcome[2] = "Telemetry"
    /\ queryLog = <<1, 2>>

\* C7: a module id is a key of all_data iff its query returned telemetry: absent
\* after a write failure, a timeout or a short frame, present when it was only
\* degraded by zero-filled chunks.
C7_KeysAreDeliveredModules ==
    /\ DOMAIN all_data \subseteq DOMAIN outcome
    /\ \A i \in DOMAIN outcome :
          \/ pc = "store" /\ bms_id = i
          \/ (i \in DOMAIN all_data <=> outcome[i] \in Deliveries)
    /\ (pc = "output" =>
            DOMAIN all_data = {i \in 1..num_modules : outcome[i] \in Deliveries})
    /\ \A i \in DOMAIN all_data : all_data[i].bms_id = i

\* after the loop: module 1 is present with a zero-filled first chunk, module 2
\* timed out and is absent
C7_Witness ==
    /\ pc = "output"
    /\ num_modules = 2
    /\ outcome[1] = "Degraded"
    /\ 1 \in DOMAIN all_data
    /\ all_data[1].payload_size = 0
    /\ outcome[2] = "Timeout"
    /\ 2 \notin DOMAIN all_data

\* what the printed lines say about module i
SaidFailed(i) ==
    \E k \in 1..Len(stdout) :
        stdout[k] \in {<<"failed", i>>, <<"no_response", i>>,
                       <<"no_data_soc", i>>, <<"no_data_energy", i>>}

\* what the JSON document says about module i: it has no module count and no
\* entry for a failed module, so all a reader has is a gap below a present key,
\* or, as every session has a module 1, an empty document
DocShowsFailed(i) ==
    /\ report # None
    /\ i \notin DOMAIN report[1].modules
    /\ \/ \E j \in DOMAIN report[1].modules : j > i
       \/ i = 1 /\ DOMAIN report[1].modules = {}

\* C8: in table mode and in JSON mode, every module id in 1..N whose query
\* failed can be told to have failed from what the session put out (stated for
\* the sessions that end without an exception; one that ends by an exception
\* shows its traceback).
C8_FailuresReported ==
    (pc = "done" /\ ~raised) =>
        \A i \in EndedAs(Failures) : SaidFailed(i) \/ DocShowsFailed(i)

\* C9: the connection is opened once and closed once: after a successful connect
\* every way out of the session, by completion or by an exception, calls close()
\* exactly once, and no request is issued after close().
C9_ConnectOnceCloseOnce ==
    /\ connects <= 1
    /\ closes <= 1
    /\ ~ioAfterClose
    /\ (req # NoReq => connects = 1 /\ pc # "exit")
    /\ (pc = "exit" => connects = 0 /\ closes = 0)
    /\ (pc \notin {"connect", "exit"} => connects = 1)
    /\ (closes = 1 <=> pc = "done")
    /\ (pc = "finally" => ENABLED Finally)

\* a session that ended by an exception during the queries, closed once
C9_Witness ==
    /\ pc = "done"
    /\ raised
    /\ queryLog # <<>>
    /\ connects = 1
    /\ closes = 1

\* C10: the summary is one read of 25 registers, never repeated; an error on it
\* leaves the summary absent and the module polling as it would have been: every
\* module id is queried and all_data holds exactly the modules that delivered.
C10_SummaryOptional ==
    /\ summaryReads <= 1
    /\ (summaryReads = 1 /\ pc = "loop" /\ bms_id = 1 => req = ReadReq(1280, 25))
    /\ (pc \in {"loop", "q_write", "q_poll", "q_fetch", "store", "output"} => summaryReads = 1)
    /\ (summary = None /\ summaryReads = 1 /\ ~raised =>
            /\ pc # "summary"
            /\ (pc \in {"output", "finally", "done"} =>
                   /\ queryLog = [k \in 1..num_modules |-> k]
                   /\ DOMAIN all_data = {i \in 1..num_modules : outcome[i] \in Deliveries}))
    /\ (summary = None /\ ~json
          /\ pc \in {"loop", "q_write", "q_poll", "q_fetch", "store", "output"} =>
            <<"summary_unavailable", 0>> \in Items(stdout))

\* the summary read failed and both modules were queried and delivered
C10_Witness ==
    /\ pc = "output"
    /\ summary = None
    /\ summaryReads = 1
    /\ num_modules = 2
    /\ queryLog = <<1, 2>>
    /\ DOMAIN all_data = {1, 2}

\* table mode alone: every failed module has a line that says so
TableSaysFailed ==
    (pc = "done" /\ ~json) => \A i \in EndedAs(Failures) : SaidFailed(i)

\* ---- The frame decoder on its own ------------------------------------------------
\* values of one temperature word: (0, 0), (5, -3), (0, 7), (7, 0),
\* (127, -128), (-128, 0) and (0, -1) as (high byte, low byte)
TempWords == {0, 5 * 256 + 253, 7, 7 * 256, 127 * 256 + 128, 128 * 256, 255}

\* a complete frame whose words 180..183 are w[1]..w[4]
TempFrame(w) ==
    [p \in 1..FrameLen |-> IF p - 1 \in 180..183 THEN w[p - 180] ELSE FrameWord(p - 1)]

\* query_module at line 177, the four chunks read: r holds a complete frame
InitTemps ==
    /\ pc = "decode"
    /\ raised = FALSE
    /\ connects = 1
    /\ closes = 0
    /\ json = FALSE
    /\ towers = 1
    /\ num_modules = 1
    /\ bmu_serial = None
    /\ summary = None
    /\ all_data = <<>>
    /\ bms_id = 1
    /\ data = None
    /\ wr = None
    /\ elapsed = 0
    /\ result = None
    /\ r \in {TempFrame(w) : w \in [1..4 -> TempWords]}
    /\ chunk = BMS_DATA_CHUNKS
    /\ stdout = <<>>
    /\ report = None
    /\ req = NoReq
    /\ ioAfterClose = FALSE
    /\ writes = 1
    /\ statusReads = 0
    /\ readySeen = TRUE
    /\ dataReads = BMS_DATA_CHUNKS
    /\ resp = <<>>
    /\ queryLog = <<1>>
    /\ outcome = <<>>
    /\ summaryReads = 1

\* query_module lines 177-245: the frame is decoded and returned
DecodeFrame ==
    /\ pc = "decode"
    /\ data' = QueryResult(r, bms_id)
    /\ pc' = "decoded"
    /\ UNCHANGED <<raised, args, conn, num_modules, bmu_serial, summary, all_data, bms_id,
                   qloc, outs, req, ioAfterClose, qhist, shist>>

NextTemps == DecodeFrame

SpecTemps == InitTemps /\ [][NextTemps]_vars

\* the 8 bytes of words 180..183 of r, high byte then low byte of each word,
\* a byte above 127 read as byte - 256
C11_Bytes ==
    [k \in 1..8 |->
        LET w == r[181 + (k - 1) \div 2]
            b == IF k % 2 = 1 THEN w \div 256 ELSE w % 256
        IN  IF b > 127 THEN b - 256 ELSE b]

\* C11: the decoded cell temperatures are the 8 signed bytes of words 180..183
\* with exactly the maximal suffix of zeros removed: 0 to 8 entries, a prefix
\* of the 8 bytes, never ending in 0, every dropped entry a zero (so leading
\* and interior zeros stay); [5, -3, 0, 7, 0, 0, 0, 0] becomes [5, -3, 0, 7]
C11_TempsTrimmed ==
    pc = "decoded" =>
        /\ data # None
        /\ LET t == data[1].cell_temps
               n == Len(t)
           IN  /\ n \in 0..8
               /\ t = SubSeq(C11_Bytes, 1, n)
               /\ (n > 0 => t[n] # 0)
               /\ \A k \in (n + 1)..8 : C11_Bytes[k] = 0
               /\ (C11_Bytes = <<5, -3, 0, 7, 0, 0, 0, 0>> => t = <<5, -3, 0, 7>>)

\* the frame with bytes [5, -3, 0, 7, 0, 0, 0, 0] was decoded: an interior zero
\* is kept and four trailing zeros are dropped
C11_Witness ==
    /\ pc = "decoded"
    /\ C11_Bytes = <<5, -3, 0, 7, 0, 0, 0, 0>>
    /\ data # None
    /\ data[1].cell_temps = <<5, -3, 0, 7>>

\* ---- The cell table on its own ---------------------------------------------------
\* cell voltages of the module under test, in mV
CellVolts == {3300, 3301, 3302, 3310}

\* values of one temperature word of the module under test: (20, 20), (20, 21)
\* and (25, 0) as (high byte, low byte)
CellTempWords == {20 * 256 + 20, 20 * 256 + 21, 25 * 256}

\* a complete frame whose 16 cell voltages (words 49..64) repeat v[1]..v[4] and
\* whose temperature words 180..181 are w[1], w[2], words 182..183 being 0
CellFrame(v, w) ==
    [p \in 1..FrameLen |->
        IF p - 1 \in 49..64 THEN v[((p - 50) % 4) + 1]
        ELSE IF p - 1 \in 180..181 THEN w[p - 180]
        ELSE IF p - 1 \in 182..183 THEN 0
        ELSE FrameWord(p - 1)]

\* the frame of a second module whose cells lie on both sides of CellVolts and
\* whose temperatures lie on both sides of those of CellTempWords
WideFrame == CellFrame(<<3290, 3305, 3305, 3320>>, <<10 * 256 + 40, 10 * 256 + 40>>)

\* main at line 650 in table mode (the lines printed before the report left
\* out): module 1 delivered a drawn frame; module 2 does not exist, failed, or
\* delivered WideFrame
InitCells ==
    /\ pc = "output"
    /\ raised = FALSE
    /\ connects = 1
    /\ closes = 0
    /\ json = FALSE
    /\ towers = 1
    /\ num_modules \in 1..2
    /\ bmu_serial = None
    /\ summary = None
    /\ \E v \in [1..4 -> CellVolts], w \in [1..2 -> CellTempWords], two \in BOOLEAN :
          /\ two => num_modules = 2
          /\ all_data = (1 :> Decode(CellFrame(v, w), 1))
                         @@ (IF two THEN 2 :> Decode(WideFrame, 2) ELSE <<>>)
    /\ bms_id = num_modules + 1
    /\ data = None
    /\ wr = None
    /\ elapsed = 0
    /\ result = None
    /\ r = <<>>
    /\ chunk = 0
    /\ stdout = <<>>
    /\ report = None
    /\ req = NoReq
    /\ ioAfterClose = FALSE
    /\ writes = 0
    /\ statusReads = 0
    /\ readySeen = FALSE
    /\ dataReads = 0
    /\ resp = <<>>
    /\ queryLog = [k \in 1..num_modules |-> k]
    /\ outcome = [k \in 1..num_modules |->
                     IF k \in DOMAIN all_data THEN "Telemetry" ELSE "Timeout"]
    /\ summaryReads = 1

NextCells ==
    \/ OutputTable
    \/ Finally

SpecCells == InitCells /\ [][NextCells]_vars

\* a cell of the table is flagged when it is printed in a colour
C12_Flagged(c) == c \notin {"", "."}

\* x is the minimum of S at least th below the next distinct value, or the
\* maximum of S at least th above the second-highest distinct value
C12_Outlier(x, S, th) ==
    /\ S \ {x} # {}
    /\ \/ x = MinOf(S) /\ MinOf(S \ {x}) - x >= th
       \/ x = MaxOf(S) /\ x - MaxOf(S \ {x}) >= th

\* C12: in a module's row a voltage is flagged only if it is the minimum with a
\* gap of at least 5 mV to the next distinct value or the maximum with a gap of
\* at least 5 mV to the second-highest distinct value, a valid temperature
\* likewise with threshold 2; for the values 3300, 3301, 3302, 3310 the
\* maximum 3310 is flagged and the minimum 3300 is not
C12_GapOutliers ==
    \A k \in 1..Len(stdout) :
        stdout[k][1] = "cells" =>
            LET d == all_data[stdout[k][2]]
                cv == d.cell_voltages
                ct == d.cell_temps
            IN  /\ \A i \in DOMAIN cv :
                       C12_Flagged(stdout[k][3][i]) => C12_Outlier(cv[i], SeqSet(cv), 5)
                /\ \A i \in DOMAIN ct :
                       ct[i] > 0 /\ C12_Flagged(stdout[k][4][i])
                           => C12_Outlier(ct[i], ValidTemps(ct), 2)
                /\ (SeqSet(cv) = {3300, 3301, 3302, 3310} =>
                       \A i \in DOMAIN cv :
                           /\ (cv[i] = 3310 => C12_Flagged(stdout[k][3][i]))
                           /\ (cv[i] = 3300 => ~C12_Flagged(stdout[k][3][i])))

\* what the table does instead: in every row the highest and the lowest cell are
\* coloured as soon as they are more than 2 mV apart, whatever the gap to the
\* next distinct value
ExtremesColoured ==
    \A k \in 1..Len(stdout) :
        stdout[k][1] = "cells" =>
            LET cv == all_data[stdout[k][2]].cell_voltages
            IN  MaxOf(SeqSet(cv)) - MinOf(SeqSet(cv)) > 2 =>
                    \A i \in DOMAIN cv :
                        cv[i] \in {MinOf(SeqSet(cv)), MaxOf(SeqSet(cv))}
                            => C12_Flagged(stdout[k][3][i])

\* ---- Warranty percentage ---------------------------------------------------------
\* the percentage of a module with discharge energy dch Wh, in tenths of a
\* percent: the table entry for modules-per-tower (n // t when t > 1, else n),
\* divided by modules-per-tower, is the allotment; 0 without a table entry
C13_Pct(dch, n, t) ==
    LET mpt == IF t > 1 THEN n \div t ELSE n
    IN  IF mpt \in 1..6
        THEN (2 * dch * mpt + WARRANTY_MWH[mpt] * 10) \div (2 * WARRANTY_MWH[mpt] * 10)
        ELSE 0

\* C13: whichever modules failed, the warranty percentage a session reports for
\* a module, in the table and in the JSON document, is the one computed from
\* the table entry for the modules-per-tower of the session's module count N,
\* with allotment = entry / modules-per-tower, and 0 without an entry; so both
\* renderers report the same percentage for the same module
C13_WarrantyFromSessionCount ==
    /\ (report # None =>
            \A id \in DOMAIN report[1].modules :
                report[1].modules[id].warranty_used_pct
                    = C13_Pct(all_data[id].discharge_energy, num_modules, towers))
    /\ \A k \in 1..Len(stdout) :
            stdout[k][1] = "energy" =>
                stdout[k][3] = C13_Pct(all_data[stdout[k][2]].discharge_energy,
                                       num_modules, towers)

\* the table alone follows the session's module count, and agrees with the
\* allotment entry / modules-per-tower when the towers divide the module count
EnergyTableAgrees ==
    \A k \in 1..Len(stdout) :
        stdout[k][1] = "energy" /\ num_modules % towers = 0 =>
            stdout[k][3] = C13_Pct(all_data[stdout[k][2]].discharge_energy,
                                   num_modules, towers)

====
